---- MODULE Spec2Model ----
(***************************************************************************)
(* Model of the workspace migrator (src/migrator.py, driven by             *)
(* src/main.py): one process execution ("run") builds a Migrator, lists    *)
(* the source (TFC) workspaces page by page, and walks them through the    *)
(* filter, the idempotency gate and the five pipeline steps.  Several runs *)
(* follow one another against the same source and target backends.        *)
(***************************************************************************)
EXTENDS Integers, Sequences, FiniteSets, TLC

\* ------------------------------------------------------------------ bounds
\* Number of sequential executions of main().
MaxRuns == 2
\* Number of workspaces the source organization holds.
MaxBatch == 2
\* Number of non-success responses (HTTP or secret store) in one behaviour.
MaxFaults == 1
\* Number of workspaces the source backend puts on one page of the listing.
ServerPageLen == 1

\* ----------------------------------------------------------------- strings
\* A Python str is modelled as the sequence of its code points.
Ord(c) ==
    CASE c = " " -> 32
      [] c = "." -> 46
      [] c = "0" -> 48
      [] c = "1" -> 49
      [] c = "4" -> 52
      [] c = "5" -> 53
      [] c = "6" -> 54
      [] c = "7" -> 55
      [] c = "8" -> 56
      [] c = ">" -> 62
      [] c = "~" -> 126

Str(cs) == [i \in DOMAIN cs |-> Ord(cs[i])]

\* Python's `a > b` on str: lexicographic on code points, a proper prefix is
\* the smaller one.
RECURSIVE StrGt(_, _)
StrGt(a, b) ==
    IF a = <<>> THEN FALSE
    ELSE IF b = <<>> THEN TRUE
    ELSE IF a[1] # b[1] THEN a[1] > b[1]
    ELSE StrGt(Tail(a), Tail(b))

\* Python's s.replace(old, new): every non-overlapping occurrence, left to
\* right (old is non-empty).
RECURSIVE StrReplace(_, _, _)
StrReplace(s, old, new) ==
    IF Len(s) < Len(old) THEN s
    ELSE IF SubSeq(s, 1, Len(old)) = old
         THEN new \o StrReplace(SubSeq(s, Len(old) + 1, Len(s)), old, new)
         ELSE <<s[1]>> \o StrReplace(Tail(s), old, new)

\* The literal "1.5.7" of both version checks.
MaxVersion == Str(<<"1", ".", "5", ".", "7">>)

\* Line 309: terraform_version.replace("~>", "") > "1.5.7"
FilterRejectsVersion(terraform_version) ==
    StrGt(StrReplace(terraform_version, Str(<<"~", ">">>), <<>>), MaxVersion)

\* Line 159: terraform_version > "1.5.7"
CreateRejectsVersion(terraform_version) ==
    StrGt(terraform_version, MaxVersion)

\* A workspace name such as orders-prod-acct1 is the sequence of its
\* segments and the hyphens between them.
RECURSIVE Hyphenated(_)
Hyphenated(segments) ==
    IF Len(segments) <= 1 THEN segments
    ELSE <<segments[1], "-">> \o Hyphenated(Tail(segments))

\* name.split("-"): the pieces between the hyphens.
NameSplit(name) == [i \in 1..((Len(name) + 1) \div 2) |-> name[2 * i - 1]]

\* name.split("-")[-1]
Account(name) == NameSplit(name)[Len(NameSplit(name))]

\* ------------------------------------------------------------------ base64
\* binascii.b2a_base64 without the trailing newline: sextets 0..63, 64 is the
\* padding character "=".
RECURSIVE B64Body(_)
B64Body(bytes) ==
    IF Len(bytes) = 0 THEN <<>>
    ELSE IF Len(bytes) = 1
    THEN <<bytes[1] \div 4, (bytes[1] % 4) * 16, 64, 64>>
    ELSE IF Len(bytes) = 2
    THEN <<bytes[1] \div 4,
           (bytes[1] % 4) * 16 + bytes[2] \div 16,
           (bytes[2] % 16) * 4,
           64>>
    ELSE <<bytes[1] \div 4,
           (bytes[1] % 4) * 16 + bytes[2] \div 16,
           (bytes[2] % 16) * 4 + bytes[3] \div 64,
           bytes[3] % 64>>
         \o B64Body(SubSeq(bytes, 4, Len(bytes)))

\* binascii.b2a_base64(data): the armoured text ends with a newline (65).
b2a_base64(bytes) == B64Body(bytes) \o <<65>>

\* binascii.a2b_base64(text): characters outside the alphabet (the newline)
\* are dropped, then each group of four sextets yields up to three bytes.
RECURSIVE A2BGroups(_)
A2BGroups(s) ==
    IF Len(s) < 4 THEN <<>>
    ELSE (IF s[3] = 64
          THEN <<s[1] * 4 + s[2] \div 16>>
          ELSE IF s[4] = 64
          THEN <<s[1] * 4 + s[2] \div 16,
                 (s[2] % 16) * 16 + s[3] \div 4>>
          ELSE <<s[1] * 4 + s[2] \div 16,
                 (s[2] % 16) * 16 + s[3] \div 4,
                 (s[3] % 4) * 64 + s[4]>>)
         \o A2BGroups(SubSeq(s, 5, Len(s)))

a2b_base64(text) == A2BGroups(SelectSeq(text, LAMBDA c : c <= 64))

\* hashlib.md5(data).hexdigest(): a digest that identifies the bytes.
Md5Hex(bytes) == [md5_of |-> bytes]

\* ---------------------------------------------------- the world of a run
\* Terraform-version strings met in the source organization.
V_1_4_6      == Str(<<"1", ".", "4", ".", "6">>)
V_1_5_7      == Str(<<"1", ".", "5", ".", "7">>)
V_1_5_8      == Str(<<"1", ".", "5", ".", "8">>)
V_1_5_10     == Str(<<"1", ".", "5", ".", "1", "0">>)
V_1_10_0     == Str(<<"1", ".", "1", "0", ".", "0">>)
V_P_1_5_7    == Str(<<"~", ">", "1", ".", "5", ".", "7">>)
V_P_1_6_0    == Str(<<"~", ">", "1", ".", "6", ".", "0">>)
V_PS_1_6_0   == Str(<<"~", ">", " ", "1", ".", "6", ".", "0">>)

\* The workspaces the source backend may hold: the "data" items of the
\* listing response (id and the attributes the migrator reads).
Catalog ==
    << [id |-> "ws-1", name |-> Hyphenated(<<"orders", "prod", "acct1">>),
        terraform_version |-> V_1_5_7, locked |-> FALSE, resource_count |-> 3],
       [id |-> "ws-2", name |-> Hyphenated(<<"orders", "dev", "acct1">>),
        terraform_version |-> V_1_4_6, locked |-> FALSE, resource_count |-> 1],
       [id |-> "ws-3", name |-> Hyphenated(<<"billing", "prod", "acct2">>),
        terraform_version |-> V_1_5_10, locked |-> FALSE, resource_count |-> 2],
       [id |-> "ws-4", name |-> Hyphenated(<<"billing", "dev", "acct2">>),
        terraform_version |-> V_1_10_0, locked |-> FALSE, resource_count |-> 1],
       [id |-> "ws-5", name |-> Hyphenated(<<"orders", "stage", "acct1">>),
        terraform_version |-> V_1_5_8, locked |-> FALSE, resource_count |-> 1],
       [id |-> "ws-6", name |-> Hyphenated(<<"orders", "qa", "acct1">>),
        terraform_version |-> V_P_1_5_7, locked |-> FALSE, resource_count |-> 1],
       [id |-> "ws-7", name |-> Hyphenated(<<"orders", "test", "acct1">>),
        terraform_version |-> V_PS_1_6_0, locked |-> FALSE, resource_count |-> 1],
       [id |-> "ws-8", name |-> Hyphenated(<<"orders", "old", "acct1">>),
        terraform_version |-> V_P_1_6_0, locked |-> FALSE, resource_count |-> 1],
       [id |-> "ws-9", name |-> Hyphenated(<<"orders", "lab", "acct1">>),
        terraform_version |-> V_1_5_7, locked |-> TRUE, resource_count |-> 1],
       [id |-> "ws-10", name |-> Hyphenated(<<"orders", "empty", "acct1">>),
        terraform_version |-> V_1_5_7, locked |-> FALSE, resource_count |-> 0],
       [id |-> "ws-11", name |-> Hyphenated(<<"orders", "prod", "acct9">>),
        terraform_version |-> V_1_5_7, locked |-> FALSE, resource_count |-> 1],
       [id |-> "ws-12", name |-> Hyphenated(<<"legacy", "prod", "acct1">>),
        terraform_version |-> V_1_5_7, locked |-> FALSE, resource_count |-> 1],
       [id |-> "ws-13", name |-> Hyphenated(<<"ghost", "prod", "acct1">>),
        terraform_version |-> V_1_4_6, locked |-> FALSE, resource_count |-> 1],
       [id |-> "ws-14", name |-> Hyphenated(<<"orders", "eu", "prod", "acct1">>),
        terraform_version |-> V_1_4_6, locked |-> FALSE, resource_count |-> 1],
       [id |-> "ws-15", name |-> Hyphenated(<<"billing", "qa", "acct2">>),
        terraform_version |-> V_1_5_7, locked |-> FALSE, resource_count |-> 1] >>

CatalogIds == DOMAIN Catalog

Names == {Catalog[i].name : i \in CatalogIds}

\* The "data" of GET state-versions (page[size] = 1) for a workspace name:
\* at most one item; `content` is the body behind hosted-state-download-url
\* and `lineage` what parsing that body as JSON yields under "lineage".
TfcStateVersions(name) ==
    CASE name = Hyphenated(<<"orders", "prod", "acct1">>) ->
             << [serial |-> 7, content |-> <<77, 97, 110>>, lineage |-> "lin-a"] >>
      [] name = Hyphenated(<<"billing", "prod", "acct2">>) ->
             << [serial |-> 3, content |-> <<77, 97>>, lineage |-> "lin-b"] >>
      [] name = Hyphenated(<<"billing", "dev", "acct2">>) ->
             << [serial |-> 1, content |-> <<77>>, lineage |-> "lin-c"] >>
      [] name = Hyphenated(<<"legacy", "prod", "acct1">>) ->
             << [serial |-> 2, content |-> <<77, 97, 110, 33>>, lineage |-> "lin-d"] >>
      [] OTHER -> << >>

\* The "data" of GET vars for a workspace name.  The source API withholds
\* the value of a sensitive variable (null).
TfcVars(name) ==
    CASE name = Hyphenated(<<"orders", "prod", "acct1">>) ->
             << [key |-> "DB_PASS", value |-> "null", category |-> "env",
                 sensitive |-> TRUE, description |-> "database password"],
                [key |-> "REGION", value |-> "us-east-1", category |-> "terraform",
                 sensitive |-> FALSE, description |-> "null"] >>
      [] name = Hyphenated(<<"orders", "dev", "acct1">>) ->
             << [key |-> "REGION", value |-> "eu-west-1", category |-> "terraform",
                 sensitive |-> FALSE, description |-> "region"] >>
      [] name = Hyphenated(<<"billing", "prod", "acct2">>) ->
             << [key |-> "REGION", value |-> "us-east-1", category |-> "env",
                 sensitive |-> FALSE, description |-> "null"],
                [key |-> "API_KEY", value |-> "null", category |-> "env",
                 sensitive |-> TRUE, description |-> "null"] >>
      [] name = Hyphenated(<<"billing", "qa", "acct2">>) ->
             << [key |-> "TOKEN", value |-> "null", category |-> "terraform",
                 sensitive |-> TRUE, description |-> "null"],
                [key |-> "DB_PASS", value |-> "null", category |-> "env",
                 sensitive |-> TRUE, description |-> "null"] >>
      [] OTHER -> << >>

\* The secret store: parameters by path {prefix}/{workspace_name}/.../{key}.
SsmParameters ==
    << [Name |-> <<"mig", Hyphenated(<<"orders", "prod", "acct1">>), "DB_PASS">>,
        Value |-> "s3cret"],
       [Name |-> <<"mig", Hyphenated(<<"orders", "prod", "acct1">>), "UNUSED">>,
        Value |-> "zzz"],
       [Name |-> <<"mig", Hyphenated(<<"billing", "prod", "acct2">>), "OTHER_KEY">>,
        Value |-> "other"],
       [Name |-> <<"mig", Hyphenated(<<"billing", "qa", "acct2">>), "TOKEN">>,
        Value |-> "tok-1"],
       [Name |-> <<"mig", Hyphenated(<<"billing", "qa", "acct2">>), "nested", "DB_PASS">>,
        Value |-> "pw-2"],
       [Name |-> <<"other", Hyphenated(<<"orders", "dev", "acct1">>), "REGION">>,
        Value |-> "nope"] >>

ssm_prefix == "mig"

\* get_workspace_secrets: every parameter under {ssm_prefix}/{workspace_name}
\* (Recursive), keyed by the last path segment; a later parameter with the
\* same leaf overwrites an earlier one.  fold(k) is the dict after the first
\* k parameters.
RECURSIVE SecretsFold(_, _)
SecretsFold(workspace_name, k) ==
    IF k = 0 THEN [key \in {} |-> "null"]
    ELSE LET prev  == SecretsFold(workspace_name, k - 1)
             param == SsmParameters[k]
             path  == param.Name
         IN  IF Len(path) >= 3 /\ path[1] = ssm_prefix /\ path[2] = workspace_name
             THEN [key \in DOMAIN prev \cup {path[Len(path)]} |->
                       IF key = path[Len(path)] THEN param.Value ELSE prev[key]]
             ELSE prev

get_workspace_secrets(workspace_name) ==
    SecretsFold(workspace_name, Len(SsmParameters))

\* The target backend's environment listing, over two pages
\* (environment name -> id).
ScalrEnvironmentPages ==
    << << [name |-> "acct1", id |-> "env-1"] >>,
       << [name |-> "acct2", id |-> "env-2"] >> >>

\* fetch_environments: walks every page and fills the dict name -> id.
fetch_environments ==
    LET all == ScalrEnvironmentPages[1] \o ScalrEnvironmentPages[2]
    IN  [n \in {all[i].name : i \in DOMAIN all} |->
            (CHOOSE e \in {all[i] : i \in DOMAIN all} : e.name = n).id]

\* find_cdktf_paths: the directories under {cdktf_path}/projects, keyed by
\* their lower-cased last path segment.
find_cdktf_paths ==
    [p \in {"orders", "billing", "legacy"} |-> <<"projects", p>>]

\* The build scripts {project}/main.ts before any run, as lists of lines
\* (readlines keeps the line ends; "synth-nl" is the line "app.synth()\n",
\* "synth" the line "app.synth()" at the end of a file without a final
\* newline).
InitialMainTs ==
    [p \in {"orders", "billing", "legacy"} |->
        CASE p = "orders"  -> <<"import", "const app", "synth-nl">>
          [] p = "billing" -> <<"import", "synth">>
          [] p = "legacy"  -> <<"import", "const app">>]

\* The generated files cdktf.out/stacks/{env}-{account}/cdk.tf.json that
\* exist, by (project, env, account), with the fields the patch touches.
InitialCdkJson ==
    [k \in { <<"orders", "prod", "acct1">>, <<"orders", "dev", "acct1">>,
             <<"billing", "prod", "acct2">>, <<"billing", "qa", "acct2">> } |->
        [hostname |-> "app.terraform.io", organization |-> "tfc-org",
         overrides |-> "none"]]

scalr_hostname == "scalr.example"

\* ------------------------------------------------------------------- state
VARIABLES
    run,                  \* number of the current execution of main()
    pc,                   \* where that execution stands
    lock,                 \* Migrator.lock
    tfc_workspaces,       \* source backend: the organization's workspaces
    tfc_lock_requests,    \* source backend: lock actions received, all runs
    scalr_workspaces,     \* target backend: workspaces, in creation order
    scalr_states,         \* target backend: state-versions
    scalr_vars,           \* target backend: variables
    main_ts,              \* local files {project}/main.ts
    cdk_json,             \* local files cdk.tf.json
    environments,         \* Migrator.environments
    migrated_cdktf_mains, \* Migrator.migrated_cdktf_mains
    workspaces,           \* migrate_workspaces: the accumulated listing
    next_page,            \* migrate_workspaces: next page number, 0 is None
    idx,                  \* migrate_workspaces: position of the for loop
    gate_query,           \* filters of the last existence query
    workspace_exists,     \* "data" of the last existence query
    workspace,            \* the target workspace created in this iteration
    log,                  \* tqdm.write messages, all runs
    uncaught,             \* exceptions that ended a run
    ssm_calls,            \* get_workspace_secrets calls, all runs
    faults                \* non-success responses so far

source  == <<tfc_workspaces, tfc_lock_requests>>
target  == <<scalr_workspaces, scalr_states, scalr_vars>>
files   == <<main_ts, cdk_json>>
self    == <<lock, environments, migrated_cdktf_mains>>
listing == <<workspaces, next_page>>
locals  == <<gate_query, workspace_exists, workspace>>
vars    == <<run, pc, lock, tfc_workspaces, tfc_lock_requests,
             scalr_workspaces, scalr_states, scalr_vars, main_ts, cdk_json, environments, migrated_cdktf_mains,
             workspaces, next_page, idx, gate_query, workspace_exists,
             workspace, log, uncaught, ssm_calls, faults>>

NoWorkspace == [id |-> 0]
NoQuery     == [name |-> <<>>, environment |-> "none"]

\* The catalog entries of a set of catalog indices, in catalog order.
RECURSIVE InOrder(_)
InOrder(S) ==
    IF S = {} THEN <<>>
    ELSE LET m == CHOOSE x \in S : \A y \in S : x <= y
         IN  <<Catalog[m]>> \o InOrder(S \ {m})

Organizations ==
    {InOrder(S) : S \in {T \in SUBSET CatalogIds : Cardinality(T) \in 1..MaxBatch}}

Init ==
    /\ run = 1
    /\ pc = "start"
    /\ lock \in BOOLEAN
    /\ tfc_workspaces \in Organizations
    /\ tfc_lock_requests = <<>>
    /\ scalr_workspaces = <<>>
    /\ scalr_states = <<>>
    /\ scalr_vars = <<>>
    /\ main_ts = InitialMainTs
    /\ cdk_json = InitialCdkJson
    /\ environments = << >>
    /\ migrated_cdktf_mains = {}
    /\ workspaces = <<>>
    /\ next_page = 1
    /\ idx = 1
    /\ gate_query = NoQuery
    /\ workspace_exists = <<>>
    /\ workspace = NoWorkspace
    /\ log = <<>>
    /\ uncaught = <<>>
    /\ ssm_calls = <<>>
    /\ faults = 0

\* A request answered with a non-success status (or a failing secret-store
\* call); the model allows MaxFaults of them.
Fault   == faults < MaxFaults /\ faults' = faults + 1
NoFault == faults' = faults

\* An exception no handler catches: the process ends with a traceback.
Uncaught(at, name) ==
    /\ pc' = "crashed"
    /\ uncaught' = Append(uncaught, [run |-> run, at |-> at, name |-> name])

\* ----------------------------------------------------- main and __init__
\* main(): Migrator(lock, ...).  The constructor loads the Environment
\* Directory (any failing page request ends the process), finds the project
\* directories and starts with an empty already-patched set.
StartRun ==
    /\ pc = "start"
    /\ \/ /\ Fault
          /\ Uncaught("fetch_environments", <<>>)
          /\ UNCHANGED <<environments, migrated_cdktf_mains>>
       \/ /\ NoFault
          /\ environments' = fetch_environments
          /\ migrated_cdktf_mains' = {}
          /\ pc' = "listing"
          /\ UNCHANGED uncaught
    /\ UNCHANGED <<run, lock, source, target, files, listing, idx, locals,
                   log, ssm_calls>>

\* ------------------------------------------------------ migrate_workspaces
\* The source backend's answer to page[number] = p: the items of the page
\* and meta.pagination.next-page (0 for null).
TfcWorkspacePage(p) ==
    LET n     == Len(tfc_workspaces)
        first == (p - 1) * ServerPageLen + 1
        last  == IF p * ServerPageLen < n THEN p * ServerPageLen ELSE n
    IN  [data      |-> SubSeq(tfc_workspaces, first, last),
         next_page |-> IF p * ServerPageLen < n THEN p + 1 ELSE 0]

\* Mutant of FetchWorkspacePage: the loop is left after the first page.
FetchWorkspacePage_FirstPageOnly ==
    /\ pc = "listing"
    /\ \/ /\ Fault
          /\ Uncaught("list workspaces", <<>>)
          /\ UNCHANGED <<listing, idx>>
       \/ /\ NoFault
          /\ LET tfc_page == TfcWorkspacePage(next_page)
             IN  /\ next_page' = tfc_page.next_page
                 /\ workspaces' = workspaces \o tfc_page.data
          /\ pc' = "loop"
          /\ idx' = 1
          /\ UNCHANGED uncaught
    /\ UNCHANGED <<run, self, source, target, files, locals, log, ssm_calls>>

\* One iteration of the listing loop (lines 293-306).
FetchWorkspacePage ==
    /\ pc = "listing"
    /\ \/ /\ Fault
          /\ Uncaught("list workspaces", <<>>)
          /\ UNCHANGED <<listing, idx>>
       \/ /\ NoFault
          /\ LET tfc_page == TfcWorkspacePage(next_page)
             IN  /\ next_page' = tfc_page.next_page
                 /\ workspaces' = workspaces \o tfc_page.data
                 /\ pc' = IF tfc_page.next_page = 0 THEN "loop" ELSE "listing"
          /\ idx' = 1
          /\ UNCHANGED uncaught
    /\ UNCHANGED <<run, self, source, target, files, locals, log, ssm_calls>>

tf_workspace   == workspaces[idx]
workspace_name == tf_workspace.name

Write(msg, name) ==
    log' = Append(log, [run |-> run, msg |-> msg, name |-> name])

\* Mutant of Except: no handler, the exception leaves migrate_workspaces.
Except_Reraise ==
    /\ Uncaught("pipeline", workspace_name)
    /\ UNCHANGED <<log, idx>>

\* The handler of lines 341-342: report the failure, go on with the next
\* workspace.
Except ==
    /\ Write("Failed to migrate workspace", workspace_name)
    /\ idx' = idx + 1
    /\ pc' = "loop"
    /\ UNCHANGED uncaught

\* Mutant of Continue: the loop does not advance to the next workspace.
Continue_Stay ==
    /\ idx' = idx
    /\ pc' = "loop"
    /\ UNCHANGED uncaught

\* `continue`: next workspace.
Continue ==
    /\ idx' = idx + 1
    /\ pc' = "loop"
    /\ UNCHANGED uncaught

\* Mutant of SkipsLocked: the locked filter is missing.
SkipsLocked_Never(tfw) == FALSE

\* `if tf_workspace["attributes"]["locked"]` (line 314)
SkipsLocked(tfw) == tfw.locked

\* The three filters at the head of the loop body (lines 308-320).
FilterWorkspace ==
    /\ pc = "loop"
    /\ idx <= Len(workspaces)
    /\ IF FilterRejectsVersion(tf_workspace.terraform_version)
       THEN Write("Skipping workspace with unsupported Terraform version",
                  workspace_name) /\ Continue
       ELSE IF SkipsLocked(tf_workspace)
       THEN UNCHANGED log /\ Continue
       ELSE IF tf_workspace.resource_count = 0
       THEN Write("Skipping workspace with no resources", workspace_name)
            /\ Continue
       ELSE UNCHANGED <<log, idx, uncaught>> /\ pc' = "gate"
    /\ UNCHANGED <<run, self, source, target, files, listing, locals,
                   ssm_calls, faults>>

\* The for loop is exhausted: migrate_workspaces and main return.
EndOfBatch ==
    /\ pc = "loop"
    /\ idx > Len(workspaces)
    /\ pc' = "done"
    /\ UNCHANGED <<run, self, source, target, files, listing, idx, locals,
                   log, uncaught, ssm_calls, faults>>

\* Mutant of ScalrWorkspacesMatching: the query looks into the wrong
\* environment.
ScalrWorkspacesMatching_WrongFilter(query) ==
    SelectSeq(scalr_workspaces,
              LAMBDA w : w.name = query.name /\ w.environment # query.environment)

\* The target backend's answer to GET workspaces with filter[name] and
\* filter[environment].
ScalrWorkspacesMatching(query) ==
    SelectSeq(scalr_workspaces,
              LAMBDA w : w.name = query.name /\ w.environment = query.environment)

\* Mutant of GateFinds: the result of the existence query is ignored.
GateFinds_Never(exists) == FALSE

\* `if workspace_exists:` (line 333)
GateFinds(exists) == exists # <<>>

\* The idempotency gate (lines 321-335).  The environment lookup and the
\* existence query stand before the try block.
IdempotencyGate ==
    /\ pc = "gate"
    /\ LET account == Account(workspace_name)
       IN  IF account \notin DOMAIN environments
           THEN /\ Uncaught("KeyError environments", workspace_name)
                /\ NoFault
                /\ UNCHANGED <<locals, log, idx>>
           ELSE \/ /\ Fault
                   /\ Uncaught("fetch_scalr workspaces", workspace_name)
                   /\ UNCHANGED <<locals, log, idx>>
                \/ /\ NoFault
                   /\ LET query == [name |-> workspace_name,
                                    environment |-> environments[account]]
                          found == ScalrWorkspacesMatching(query)
                      IN  /\ gate_query' = query
                          /\ workspace_exists' = found
                          /\ workspace' = NoWorkspace
                          /\ IF GateFinds(found)
                             THEN Write("Workspace already exists", workspace_name)
                                  /\ Continue
                             ELSE UNCHANGED <<log, idx, uncaught>>
                                  /\ pc' = "create"
    /\ UNCHANGED <<run, self, source, target, files, listing, ssm_calls>>

\* write_scalr answered 201: the target backend keeps the resource and
\* records the run that created it.
Stored(body) == body @@ [created_in |-> run]

\* create_workspace: the body POSTed to the target (lines 162-185), with
\* the environment relationship.
WorkspaceBody(tfw) ==
    [name              |-> tfw.name,
     terraform_version |-> tfw.terraform_version,
     environment       |-> environments[Account(tfw.name)]]

\* create_workspace (line 336, lines 149-187).
CreateWorkspace ==
    /\ pc = "create"
    /\ IF Account(workspace_name) \notin DOMAIN environments
          \/ CreateRejectsVersion(tf_workspace.terraform_version)
       THEN Except /\ NoFault /\ UNCHANGED <<scalr_workspaces, workspace>>
       ELSE \/ Fault /\ Except /\ UNCHANGED <<scalr_workspaces, workspace>>
            \/ /\ NoFault
               /\ LET created == Stored([id |-> Len(scalr_workspaces) + 1]
                                         @@ WorkspaceBody(tf_workspace))
                  IN  /\ scalr_workspaces' = Append(scalr_workspaces, created)
                      /\ workspace' = created
               /\ pc' = "state"
               /\ UNCHANGED <<log, idx, uncaught>>
    /\ UNCHANGED <<run, self, source, scalr_states, scalr_vars, files, listing,
                   gate_query, workspace_exists, ssm_calls>>

\* Mutant of StateVersionBody: the checksum is taken over the encoded text.
StateVersionBody_ChecksumOfEncoded(tfc_state, workspace_id) ==
    [serial    |-> tfc_state.serial,
     md5       |-> Md5Hex(b2a_base64(tfc_state.content)),
     lineage   |-> tfc_state.lineage,
     state     |-> b2a_base64(tfc_state.content),
     workspace |-> workspace_id]

\* create_state: the state-version POSTed for one source state-version
\* (lines 190-209).
StateVersionBody(tfc_state, workspace_id) ==
    LET encoded_state == b2a_base64(tfc_state.content)
        decoded       == a2b_base64(encoded_state)
    IN  [serial    |-> tfc_state.serial,
         md5       |-> Md5Hex(decoded),
         lineage   |-> tfc_state.lineage,
         state     |-> encoded_state,
         workspace |-> workspace_id]

\* Mutant of MigrateState: an error of the state step is swallowed and the
\* pipeline goes on with the variables.
MigrateState_IgnoreErrors ==
    /\ pc = "state"
    /\ LET data == TfcStateVersions(workspace_name)
       IN  \/ Fault /\ scalr_states' = scalr_states
           \/ /\ NoFault
              /\ scalr_states' =
                    scalr_states \o
                    [i \in DOMAIN data |->
                        Stored(StateVersionBody(data[i], workspace.id))]
    /\ pc' = "vars"
    /\ UNCHANGED <<run, self, source, scalr_workspaces, scalr_vars, files,
                   listing, locals, ssm_calls, log, idx, uncaught>>

\* Mutant of MigrateState: the first item of "data" is taken, an empty
\* listing raises.
MigrateState_RequireState ==
    /\ pc = "state"
    /\ LET data == TfcStateVersions(workspace_name)
       IN  \/ Fault /\ Except /\ UNCHANGED scalr_states
           \/ /\ data = <<>>
              /\ NoFault /\ Except /\ UNCHANGED scalr_states
           \/ /\ data # <<>>
              /\ NoFault
              /\ scalr_states' =
                    Append(scalr_states,
                           Stored(StateVersionBody(data[1], workspace.id)))
              /\ pc' = "vars"
              /\ UNCHANGED <<log, idx, uncaught>>
    /\ UNCHANGED <<run, self, source, scalr_workspaces, scalr_vars, files,
                   listing, locals, ssm_calls>>

\* migrate_state (line 337, lines 245-252, 189-211): the listing of the
\* latest state-version, and for each item the download and the POST.  A
\* failing download leaves a body without "lineage", so line 202 raises.
MigrateState ==
    /\ pc = "state"
    /\ LET data == TfcStateVersions(workspace_name)
       IN  \/ Fault /\ Except /\ UNCHANGED scalr_states
           \/ /\ data # <<>>
              /\ Fault /\ Except /\ UNCHANGED scalr_states
           \/ /\ NoFault
              /\ scalr_states' =
                    scalr_states \o
                    [i \in DOMAIN data |->
                        Stored(StateVersionBody(data[i], workspace.id))]
              /\ pc' = "vars"
              /\ UNCHANGED <<log, idx, uncaught>>
    /\ UNCHANGED <<run, self, source, scalr_workspaces, scalr_vars, files,
                   listing, locals, ssm_calls>>

\* Mutant of NeedsSecrets: the secret store is queried for every workspace.
NeedsSecrets_Always(tfc_vars) == TRUE

\* Line 265: any(variable["attributes"]["sensitive"] for variable in tfc_vars)
NeedsSecrets(tfc_vars) == \E i \in DOMAIN tfc_vars : tfc_vars[i].sensitive

\* create_variable: the body POSTed for one variable (lines 222-234).
VariableBody(variable_key, value, category, sensitive, description, workspace_id) ==
    [key |-> variable_key, value |-> value, category |-> category,
     sensitive |-> sensitive, description |-> description,
     workspace |-> workspace_id]

\* Mutant of TransferredVariable: a sensitive variable is copied with the
\* value field of the source response.
TransferredVariable_SourceValue(attributes, secrets, workspace_id) ==
    VariableBody(attributes.key, attributes.value, attributes.category,
                 attributes.sensitive, attributes.description, workspace_id)

\* Mutant of SecretLookup: secrets.get(name), a missing key reads as None.
SecretLookup_Default(secrets, key) ==
    [raised |-> FALSE,
     value  |-> IF key \in DOMAIN secrets THEN secrets[key] ELSE "None"]

\* secrets[name] (line 286): the value, or KeyError when the key is absent.
SecretLookup(secrets, key) ==
    IF key \in DOMAIN secrets
    THEN [raised |-> FALSE, value |-> secrets[key]]
    ELSE [raised |-> TRUE, value |-> "KeyError"]

\* The call of create_variable for one source variable (lines 270-288).
TransferredVariable(attributes, secrets, workspace_id) ==
    IF ~attributes.sensitive
    THEN VariableBody(attributes.key, attributes.value, attributes.category,
                      FALSE, attributes.description, workspace_id)
    ELSE VariableBody(attributes.key,
                      SecretLookup(secrets, attributes.key).value,
                      attributes.category, TRUE, attributes.description,
                      workspace_id)

\* secrets[name] raises KeyError for this variable.
SecretMissing(attributes, secrets) ==
    attributes.sensitive /\ SecretLookup(secrets, attributes.key).raised

\* migrate_variables (line 338, lines 254-288).  k variables are created
\* before the loop ends: by a missing secret, by a failing POST, or because
\* all are done.
MigrateVariables ==
    /\ pc = "vars"
    /\ LET tfc_vars == TfcVars(workspace_name)
           queried  == [run |-> run, name |-> workspace_name]
       IN  \/ Fault /\ Except /\ UNCHANGED <<scalr_vars, ssm_calls>>
           \/ /\ NeedsSecrets(tfc_vars)
              /\ Fault /\ Except
              /\ ssm_calls' = Append(ssm_calls, queried)
              /\ UNCHANGED scalr_vars
           \/ LET secrets == IF NeedsSecrets(tfc_vars)
                             THEN get_workspace_secrets(workspace_name)
                             ELSE << >>
              IN  /\ ssm_calls' = IF NeedsSecrets(tfc_vars)
                                  THEN Append(ssm_calls, queried)
                                  ELSE ssm_calls
                  /\ \E k \in 0..Len(tfc_vars) :
                        /\ \A i \in 1..k : ~SecretMissing(tfc_vars[i], secrets)
                        /\ scalr_vars' =
                              scalr_vars \o
                              [i \in 1..k |->
                                  Stored(TransferredVariable(tfc_vars[i], secrets,
                                                             workspace.id))]
                        /\ IF k = Len(tfc_vars)
                           THEN /\ NoFault
                                /\ pc' = "lock"
                                /\ UNCHANGED <<log, idx, uncaught>>
                           ELSE IF SecretMissing(tfc_vars[k + 1], secrets)
                           THEN NoFault /\ Except
                           ELSE Fault /\ Except
    /\ UNCHANGED <<run, self, source, scalr_workspaces, scalr_states, files,
                   listing, locals>>

\* Mutant of LockWanted: neither self.lock nor the listed flag is consulted.
LockWanted_Always(tfw) == TRUE

\* Mutant of LockWanted: the lock action is never issued.
LockWanted_Never(tfw) == FALSE

\* `if self.lock and not tf_workspace["attributes"]["locked"]` (line 239)
LockWanted(tfw) == lock /\ ~tfw.locked

\* The source backend after the lock action on workspace id.
TfcLocked(id) ==
    [i \in DOMAIN tfc_workspaces |->
        IF tfc_workspaces[i].id = id
        THEN [tfc_workspaces[i] EXCEPT !.locked = TRUE]
        ELSE tfc_workspaces[i]]

\* write_tfc(f"workspaces/{id}/actions/lock", ...) (lines 240-243) as the
\* source backend receives it.
LockRequest(id, ok) == [run |-> run, id |-> id, ok |-> ok]

\* lock_tfc_workspace (line 339, lines 238-243).
LockTfcWorkspace ==
    /\ pc = "lock"
    /\ IF LockWanted(tf_workspace)
       THEN \/ /\ Fault
               /\ Except
               /\ tfc_lock_requests' =
                      Append(tfc_lock_requests,
                             LockRequest(tf_workspace.id, FALSE))
               /\ UNCHANGED tfc_workspaces
            \/ /\ NoFault
               /\ tfc_workspaces' = TfcLocked(tf_workspace.id)
               /\ tfc_lock_requests' =
                      Append(tfc_lock_requests,
                             LockRequest(tf_workspace.id, TRUE))
               /\ pc' = "cdktf"
               /\ UNCHANGED <<log, idx, uncaught>>
       ELSE /\ NoFault
            /\ pc' = "cdktf"
            /\ UNCHANGED <<source, log, idx, uncaught>>
    /\ UNCHANGED <<run, self, target, files, listing, locals, ssm_calls>>

\* list.index(x): the first position of x, 0 when it raises ValueError.
IndexOf(content, x) ==
    IF \E i \in DOMAIN content : content[i] = x
    THEN CHOOSE i \in DOMAIN content :
             content[i] = x /\ \A j \in 1..(i - 1) : content[j] # x
    ELSE 0

\* Lines 363-366: the marker line, with or without its line end.
SynthIndex(content) ==
    IF IndexOf(content, "synth-nl") # 0
    THEN IndexOf(content, "synth-nl")
    ELSE IndexOf(content, "synth")

\* list.insert(i, x): x stands before the former i-th element.
Insert(content, i, x) ==
    SubSeq(content, 1, i - 1) \o <<x>> \o SubSeq(content, i, Len(content))

\* Mutant of MustInject: the already-patched set is not consulted.
MustInject_Always(projectName) == TRUE

\* `if not projectName in self.migrated_cdktf_mains` (line 360)
MustInject(projectName) == projectName \notin migrated_cdktf_mains

\* migrate_cdktf (line 340, lines 344-384): the build-script injection,
\* once per project, then the patch of the generated cdk.tf.json.
MigrateCdktf ==
    /\ pc = "cdktf"
    /\ LET segments == NameSplit(workspace_name)
       IN  IF Len(segments) # 3
           THEN Except /\ UNCHANGED <<files, migrated_cdktf_mains>>
           ELSE
           LET projectName  == segments[1]
               envName      == segments[2]
               accountLabel == segments[3]
               stack        == <<projectName, envName, accountLabel>>
               inject       == MustInject(projectName)
           IN  IF inject /\ (projectName \notin DOMAIN find_cdktf_paths
                             \/ SynthIndex(main_ts[projectName]) = 0)
               THEN Except /\ UNCHANGED <<files, migrated_cdktf_mains>>
               ELSE /\ main_ts' =
                          IF inject
                          THEN [main_ts EXCEPT ![projectName] =
                                   Insert(@, SynthIndex(@), "INJECTION")]
                          ELSE main_ts
                    /\ migrated_cdktf_mains' =
                          migrated_cdktf_mains \cup {projectName}
                    /\ IF stack \notin DOMAIN cdk_json
                          \/ accountLabel \notin DOMAIN environments
                       THEN Except /\ UNCHANGED cdk_json
                       ELSE /\ cdk_json' =
                                  [cdk_json EXCEPT ![stack] =
                                      [hostname     |-> scalr_hostname,
                                       organization |-> environments[accountLabel],
                                       overrides    |-> "stack: terraform"]]
                            /\ Continue
                            /\ UNCHANGED log
    /\ UNCHANGED <<run, lock, environments, source, target, listing, locals,
                   ssm_calls, faults>>

\* main() is executed again, against the backends and files as they are.
NextRun ==
    /\ pc \in {"done", "crashed"}
    /\ run < MaxRuns
    /\ run' = run + 1
    /\ pc' = "start"
    /\ environments' = << >>
    /\ migrated_cdktf_mains' = {}
    /\ workspaces' = <<>>
    /\ next_page' = 1
    /\ idx' = 1
    /\ gate_query' = NoQuery
    /\ workspace_exists' = <<>>
    /\ workspace' = NoWorkspace
    /\ UNCHANGED <<lock, source, target, files, log, uncaught, ssm_calls, faults>>

Next ==
    \/ StartRun
    \/ FetchWorkspacePage
    \/ FilterWorkspace
    \/ EndOfBatch
    \/ IdempotencyGate
    \/ CreateWorkspace
    \/ MigrateState
    \/ MigrateVariables
    \/ LockTfcWorkspace
    \/ MigrateCdktf
    \/ NextRun

Spec == Init /\ [][Next]_vars

\* The steps of one execution of main(): the interpreter runs the program
\* on until it returns or an exception ends it.  Starting main() again is
\* the operator's choice and carries no fairness.
RunStep ==
    \/ StartRun
    \/ FetchWorkspacePage
    \/ FilterWorkspace
    \/ EndOfBatch
    \/ IdempotencyGate
    \/ CreateWorkspace
    \/ MigrateState
    \/ MigrateVariables
    \/ LockTfcWorkspace
    \/ MigrateCdktf

FairSpec == Spec /\ WF_vars(RunStep)

\* The source backend's answers per workspace name, tabulated once.
SourceStates == [n \in Names |-> TfcStateVersions(n)]
SourceVars   == [n \in Names |-> TfcVars(n)]

\* The terraform versions of the catalog that the filter of line 309 rejects.
VersionsRejected ==
    {v \in {Catalog[c].terraform_version : c \in CatalogIds} :
        FilterRejectsVersion(v)}

\* ================================================================ claims
\* Vocabulary of the properties below.
Reported(r, msg, name) ==
    \E i \in DOMAIN log : log[i] = [run |-> r, msg |-> msg, name |-> name]

FailedMsg  == "Failed to migrate workspace"
ExistsMsg  == "Workspace already exists"
VersionMsg == "Skipping workspace with unsupported Terraform version"

\* The workspaces of the current run's listing the loop is done with.
Visited == {j \in DOMAIN workspaces : pc \notin {"start", "listing"} /\ j < idx}

\* The listed workspace passed the three filters of this run.
Eligible(tfw) ==
    /\ tfw.terraform_version \notin VersionsRejected
    /\ ~tfw.locked
    /\ tfw.resource_count # 0

TargetWorkspaces(name) ==
    {i \in DOMAIN scalr_workspaces : scalr_workspaces[i].name = name}

StatesOf(id) == SelectSeq(scalr_states, LAMBDA x : x.workspace = id)
VarsOf(id)   == SelectSeq(scalr_vars, LAMBDA x : x.workspace = id)

SourceLocked(id) ==
    \E i \in DOMAIN tfc_workspaces :
        tfc_workspaces[i].id = id /\ tfc_workspaces[i].locked

\* Everything the pipeline writes for the listed workspace is there: the
\* target workspace, its state-version if the source has one, one variable
\* per source variable, the source lock (when locking is on) and the two
\* local patches.
FullyMigrated(tfw) ==
    /\ Cardinality(TargetWorkspaces(tfw.name)) = 1
    /\ LET id == CHOOSE i \in TargetWorkspaces(tfw.name) : TRUE
       IN  /\ Len(StatesOf(id)) = Len(SourceStates[tfw.name])
           /\ Len(VarsOf(id)) = Len(SourceVars[tfw.name])
    /\ lock => SourceLocked(tfw.id)
    /\ Len(NameSplit(tfw.name)) = 3
    /\ NameSplit(tfw.name) \in DOMAIN cdk_json
    /\ cdk_json[NameSplit(tfw.name)].hostname = scalr_hostname
    /\ \E l \in DOMAIN main_ts[NameSplit(tfw.name)[1]] :
           main_ts[NameSplit(tfw.name)[1]][l] = "INJECTION"

\* C1: partial-failure isolation.  An error raised by a pipeline step after
\* the idempotency gate never ends the run: the only exceptions that end a
\* run come from the constructor, the listing or the gate itself; and every
\* eligible workspace the loop is done with is either reported as failed,
\* reported as already existing, or fully migrated - so a failure of one
\* workspace leaves the others migrated.
C1_FailureIsolation ==
    /\ \A i \in DOMAIN uncaught :
           uncaught[i].at \in {"fetch_environments", "list workspaces",
                               "KeyError environments", "fetch_scalr workspaces"}
    /\ \A j \in Visited :
           Eligible(workspaces[j]) =>
               \/ Reported(run, FailedMsg, workspaces[j].name)
               \/ Reported(run, ExistsMsg, workspaces[j].name)
               \/ FullyMigrated(workspaces[j])

\* C1 witness: a run is over in which the first workspace was reported as
\* failed after its target workspace had been created, and the second
\* workspace is fully migrated.
C1_Witness ==
    /\ pc = "done"
    /\ Len(workspaces) >= 2
    /\ Reported(run, FailedMsg, workspaces[1].name)
    /\ TargetWorkspaces(workspaces[1].name) # {}
    /\ ~Reported(run, FailedMsg, workspaces[2].name)
    /\ ~Reported(run, ExistsMsg, workspaces[2].name)
    /\ Eligible(workspaces[2])
    /\ FullyMigrated(workspaces[2])

\* The account suffix of the listed workspace has no entry in the
\* Environment Directory.
UnknownEnvironment(tfw) == Account(tfw.name) \notin DOMAIN environments

\* The run ended with an exception raised while this workspace was being
\* processed.
CrashedAt(tfw) ==
    /\ pc = "crashed"
    /\ uncaught # <<>>
    /\ uncaught[Len(uncaught)].name = tfw.name

\* C2: unknown environment.  An eligible workspace whose account suffix has
\* no entry in the Environment Directory never ends the run: once the loop
\* has reached it, the run is not crashed at it, and once the loop is done
\* with it, it is reported as failed.
C2_UnknownEnvironmentFailsOneWorkspace ==
    \A j \in DOMAIN workspaces :
        (Eligible(workspaces[j]) /\ UnknownEnvironment(workspaces[j])) =>
            /\ ~CrashedAt(workspaces[j])
            /\ j \in Visited => Reported(run, FailedMsg, workspaces[j].name)

\* C3: request failures are caught per workspace.  A non-success response
\* to a backend request issued while a workspace is being processed - the
\* existence query of the gate included - fails that workspace only and
\* never ends the run: no run ends with the exception of the existence
\* query, and a run is not crashed at a workspace unless its environment is
\* unknown.
C3_RequestFailureFailsOneWorkspace ==
    /\ \A i \in DOMAIN uncaught : uncaught[i].at # "fetch_scalr workspaces"
    /\ \A j \in DOMAIN workspaces :
           CrashedAt(workspaces[j]) => UnknownEnvironment(workspaces[j])

\* The run that ended with an uncaught exception.
Crashed(r) == \E i \in DOMAIN uncaught : uncaught[i].run = r

TargetResources ==
    {scalr_workspaces[i] : i \in DOMAIN scalr_workspaces}
    \cup {[created_in |-> scalr_states[i].created_in] : i \in DOMAIN scalr_states}
    \cup {[created_in |-> scalr_vars[i].created_in] : i \in DOMAIN scalr_vars}

\* C4 as claimed: after a run that completed, the next run creates nothing
\* on the target - every target resource stems from the first run, or from
\* a run that followed a crashed one.
C4_SecondRunCreatesNothing ==
    \A x \in TargetResources : x.created_in > 1 => Crashed(x.created_in - 1)

\* C4 amended: a run creates nothing for a workspace that already has a
\* target workspace.  No name gets a second target workspace, and every
\* state-version and variable was created by the run that created its
\* workspace; what a later run adds belongs to workspaces that had no
\* target workspace before it.
C4_NothingNewForExistingWorkspaces ==
    /\ \A i, j \in DOMAIN scalr_workspaces :
           scalr_workspaces[i].name = scalr_workspaces[j].name => i = j
    /\ \A i \in DOMAIN scalr_states :
           scalr_states[i].created_in =
               scalr_workspaces[scalr_states[i].workspace].created_in
    /\ \A i \in DOMAIN scalr_vars :
           scalr_vars[i].created_in =
               scalr_workspaces[scalr_vars[i].workspace].created_in

\* C4 witness: a second run is over; it found a workspace of the first run
\* at the gate and created the one whose creation had failed before.
C4_Witness ==
    /\ run = 2
    /\ pc = "done"
    /\ \E i, j \in DOMAIN scalr_workspaces :
           /\ scalr_workspaces[i].created_in = 1
           /\ Reported(2, ExistsMsg, scalr_workspaces[i].name)
           /\ scalr_workspaces[j].created_in = 2
           /\ Reported(1, FailedMsg, scalr_workspaces[j].name)

\* The target workspaces created before the current run.
CreatedEarlier(name) ==
    \E i \in DOMAIN scalr_workspaces :
        scalr_workspaces[i].name = name /\ scalr_workspaces[i].created_in < run

\* C5 as claimed: with locking on, a later run that comes to its end has
\* reported "already exists" for every workspace an earlier run created on
\* the target.
C5_SecondRunReportsAlreadyExists ==
    (run >= 2 /\ pc = "done" /\ lock) =>
        \A i \in DOMAIN scalr_workspaces :
            scalr_workspaces[i].created_in < run =>
                Reported(run, ExistsMsg, scalr_workspaces[i].name)

\* C5 amended: in a later run that comes to its end, a workspace an earlier
\* run created on the target is reported "already exists" exactly when its
\* source is not locked at listing time; one that is locked (the earlier
\* run locked it) is skipped at the locked filter without a message.
C5_ReportedUnlessLocked ==
    (run >= 2 /\ pc = "done") =>
        \A j \in DOMAIN workspaces :
            CreatedEarlier(workspaces[j].name) =>
                (Reported(run, ExistsMsg, workspaces[j].name)
                    <=> ~workspaces[j].locked)

\* C5 witness: a second run is over with locking on; one workspace of the
\* first run was locked by it and got no message, another was not and is
\* reported as existing.
C5_Witness ==
    /\ run = 2
    /\ pc = "done"
    /\ lock
    /\ \E j, k \in DOMAIN workspaces :
           /\ CreatedEarlier(workspaces[j].name)
           /\ workspaces[j].locked
           /\ ~Reported(2, ExistsMsg, workspaces[j].name)
           /\ CreatedEarlier(workspaces[k].name)
           /\ ~workspaces[k].locked
           /\ Reported(2, ExistsMsg, workspaces[k].name)

\* C6: at-most-once creation.  The target never holds two workspaces with
\* the same name and environment, and a workspace is created only in an
\* iteration whose existence query asked for that name and environment and
\* returned nothing.
C6_AtMostOnceCreation ==
    /\ \A i, j \in DOMAIN scalr_workspaces :
           (scalr_workspaces[i].name = scalr_workspaces[j].name
            /\ scalr_workspaces[i].environment = scalr_workspaces[j].environment)
               => i = j
    /\ pc = "create" =>
           (gate_query.name = workspace_name /\ workspace_exists = <<>>)
    /\ workspace # NoWorkspace =>
           /\ gate_query = [name |-> workspace.name,
                            environment |-> workspace.environment]
           /\ workspace_exists = <<>>

\* C6 witness: in a second run the gate has found one workspace of the first
\* run, and another workspace has just been created after an empty query.
C6_Witness ==
    /\ run = 2
    /\ pc = "state"
    /\ workspace.created_in = 2
    /\ Len(scalr_workspaces) >= 2
    /\ \E i \in DOMAIN scalr_workspaces :
           Reported(2, ExistsMsg, scalr_workspaces[i].name)

\* The numeric dotted version of the spec: the pessimistic-operator marker
\* and blanks before the number are dropped, the components are numbers.
RECURSIVE StripMarker(_)
StripMarker(s) ==
    IF s # <<>> /\ s[1] \in {126, 62, 32} THEN StripMarker(Tail(s)) ELSE s

RECURSIVE Dotted(_, _)
Dotted(s, component) ==
    IF s = <<>> THEN <<component>>
    ELSE IF s[1] = 46 THEN <<component>> \o Dotted(Tail(s), 0)
    ELSE Dotted(Tail(s), component * 10 + (s[1] - 48))

NumericVersion(s) == Dotted(StripMarker(s), 0)

RECURSIVE NumericGt(_, _)
NumericGt(a, b) ==
    IF a = <<>> THEN FALSE
    ELSE IF b = <<>> THEN TRUE
    ELSE IF a[1] # b[1] THEN a[1] > b[1]
    ELSE NumericGt(Tail(a), Tail(b))

ExceedsCeiling(terraform_version) ==
    NumericGt(NumericVersion(terraform_version), <<1, 5, 7>>)

\* C7: eligibility invariant.  Every target workspace created by the
\* current run belongs to a listed source workspace that was not locked at
\* listing time, has at least one resource, and whose version, compared as
\* a numeric dotted version, does not exceed 1.5.7.
C7_EligibilityInvariant ==
    \A i \in DOMAIN scalr_workspaces :
        scalr_workspaces[i].created_in = run =>
            \E j \in DOMAIN workspaces :
                /\ workspaces[j].name = scalr_workspaces[i].name
                /\ ~workspaces[j].locked
                /\ workspaces[j].resource_count >= 1
                /\ ~ExceedsCeiling(workspaces[j].terraform_version)

\* C8: version filter boundary and prefix.  In a first run without request
\* failures, a workspace that is unlocked, has resources and a known
\* environment ends by its version alone, and a "~>" marker changes
\* nothing: with the marker dropped, a version above "1.5.7" is skipped at
\* the filter and any other (1.5.7 itself included) is created on the
\* target.
C8_PrefixSameOutcome ==
    \A j \in Visited :
        LET tfw == workspaces[j]
            V   == StripMarker(tfw.terraform_version)
        IN  (run = 1 /\ faults = 0 /\ ~tfw.locked /\ tfw.resource_count # 0
             /\ ~UnknownEnvironment(tfw)) =>
                IF StrGt(V, MaxVersion)
                THEN /\ Reported(run, VersionMsg, tfw.name)
                     /\ TargetWorkspaces(tfw.name) = {}
                ELSE /\ ~Reported(run, VersionMsg, tfw.name)
                     /\ TargetWorkspaces(tfw.name) # {}

\* The parameters of the secret store below {ssm_prefix}/{name} whose last
\* path segment is the key.
StoredSecrets(name, key) ==
    {SsmParameters[i].Value : i \in
        {k \in DOMAIN SsmParameters :
            LET path == SsmParameters[k].Name
            IN  path[1] = ssm_prefix /\ path[2] = name /\ path[Len(path)] = key}}

\* C9: sensitive-variable substitution.  Every variable on the target stems
\* from the source variable of its workspace with the same key, keeps its
\* sensitivity, category and description; a sensitive one carries the value
\* the secret store holds for that key under the workspace's path and not
\* the value field of the source response, a non-sensitive one carries the
\* source value.
C9_SensitiveSubstitution ==
    \A i \in DOMAIN scalr_vars :
        LET v       == scalr_vars[i]
            name    == scalr_workspaces[v.workspace].name
            sources == {a \in {SourceVars[name][k] : k \in DOMAIN SourceVars[name]} :
                           a.key = v.key}
        IN  /\ sources # {}
            /\ \A a \in sources :
                   /\ v.sensitive = a.sensitive
                   /\ v.category = a.category
                   /\ v.description = a.description
                   /\ v.sensitive =>
                          (v.value \in StoredSecrets(name, v.key) /\ v.value # a.value)
                   /\ ~v.sensitive => v.value = a.value

\* C9 witness: the scenario of the spec - DB_PASS arrived with the secret
\* store's value, REGION with the source value.
C9_Witness ==
    \E i, j \in DOMAIN scalr_vars :
        /\ scalr_vars[i].workspace = scalr_vars[j].workspace
        /\ scalr_vars[i].key = "DB_PASS" /\ scalr_vars[i].sensitive
        /\ scalr_vars[i].value = "s3cret"
        /\ scalr_vars[j].key = "REGION" /\ ~scalr_vars[j].sensitive
        /\ scalr_vars[j].value = "us-east-1"

SsmCallCount(r, name) ==
    Cardinality({i \in DOMAIN ssm_calls :
                    ssm_calls[i] = [run |-> r, name |-> name]})

HasSensitive(name) ==
    \E k \in DOMAIN SourceVars[name] : SourceVars[name][k].sensitive

\* C10: secret resolver call count.  In every run the secret store is
\* queried at most once per workspace, and only for a workspace that has a
\* sensitive variable.
C10_SecretStoreCalls ==
    \A i \in DOMAIN ssm_calls :
        /\ HasSensitive(ssm_calls[i].name)
        /\ \A j \in DOMAIN ssm_calls : ssm_calls[j] = ssm_calls[i] => j = i

\* C10 witness: the variables of a workspace without a sensitive variable
\* were migrated without a query, those of a workspace with one after
\* exactly one query, in the same run.
C10_Witness ==
    \E a, b \in DOMAIN scalr_workspaces :
        /\ scalr_workspaces[a].created_in = scalr_workspaces[b].created_in
        /\ ~HasSensitive(scalr_workspaces[a].name)
        /\ VarsOf(a) # <<>>
        /\ SsmCallCount(scalr_workspaces[a].created_in, scalr_workspaces[a].name) = 0
        /\ HasSensitive(scalr_workspaces[b].name)
        /\ VarsOf(b) # <<>>
        /\ SsmCallCount(scalr_workspaces[b].created_in, scalr_workspaces[b].name) = 1

\* The keys of the workspace's sensitive source variables for which the
\* secret store holds nothing under the workspace's path.
MissingSecretKeys(name) ==
    {SourceVars[name][k].key : k \in
        {i \in DOMAIN SourceVars[name] :
            SourceVars[name][i].sensitive
            /\ StoredSecrets(name, SourceVars[name][i].key) = {}}}

MissingSecrets == [n \in Names |-> MissingSecretKeys(n)]

\* The target workspaces of that name a given run created.
CreatedIn(r, name) ==
    {i \in TargetWorkspaces(name) : scalr_workspaces[i].created_in = r}

\* The cdk.tf.json of the workspace's stack points at the target backend.
StackPatched(name) ==
    /\ NameSplit(name) \in DOMAIN cdk_json
    /\ cdk_json[NameSplit(name)].hostname = scalr_hostname

\* C11: missing secret.  For a listed workspace with a sensitive variable
\* whose key the secret store does not hold: the target never has a variable
\* of that key for it, its source is never locked by the tool and its stack
\* file is never patched; once a run has created its target workspace, the
\* pipeline is either still before the lock step or the loop has moved on
\* (the run was not ended by it) and the workspace is reported as failed.
C11_MissingSecretFailsWorkspace ==
    \A j \in DOMAIN workspaces :
        LET tfw     == workspaces[j]
            missing == MissingSecrets[tfw.name]
        IN  missing # {} =>
              /\ \A i \in DOMAIN scalr_vars :
                     scalr_vars[i].key \in missing =>
                        scalr_vars[i].workspace \notin TargetWorkspaces(tfw.name)
              /\ ~tfw.locked => ~SourceLocked(tfw.id)
              /\ ~StackPatched(tfw.name)
              /\ CreatedIn(run, tfw.name) # {} =>
                    IF idx = j
                    THEN pc \in {"state", "vars"}
                    ELSE j < idx /\ Reported(run, FailedMsg, tfw.name)

\* C11 witness: a run ended normally after a workspace with a missing secret
\* was created, got the variable listed before the sensitive one, was
\* reported as failed, and was followed by another workspace.
C11_Witness ==
    /\ pc = "done"
    /\ \E j \in Visited :
          /\ j < Len(workspaces)
          /\ MissingSecrets[workspaces[j].name] # {}
          /\ Reported(run, FailedMsg, workspaces[j].name)
          /\ \E i \in CreatedIn(run, workspaces[j].name) : Len(VarsOf(i)) = 1

\* The number of injected fragments in the content of a main.ts.
Injections(content) ==
    Cardinality({i \in DOMAIN content : content[i] = "INJECTION"})

\* C12: build-script injection at most once per project and run.  A step
\* changes a project's main.ts only while the project is not in the run's
\* already-patched set, it then inserts exactly one fragment and records the
\* project; a project enters the set only in a step that inserted the
\* fragment, and stays in it until the run is over.
C12_InjectionOncePerRun ==
    [][\A p \in DOMAIN main_ts :
          /\ main_ts'[p] # main_ts[p] =>
                /\ p \notin migrated_cdktf_mains
                /\ p \in migrated_cdktf_mains'
                /\ Injections(main_ts'[p]) = Injections(main_ts[p]) + 1
          /\ (p \in migrated_cdktf_mains' /\ p \notin migrated_cdktf_mains) =>
                Injections(main_ts'[p]) = Injections(main_ts[p]) + 1
          /\ (p \in migrated_cdktf_mains /\ run' = run) =>
                p \in migrated_cdktf_mains'
          /\ migrated_cdktf_mains' \subseteq DOMAIN main_ts]_vars

\* C12 witness: the first run patched the stacks of two workspaces of one
\* project and the project's main.ts holds one fragment.
C12_Witness ==
    /\ run = 1
    /\ pc = "done"
    /\ \E i, j \in DOMAIN workspaces :
          /\ i < j
          /\ NameSplit(workspaces[i].name)[1] = NameSplit(workspaces[j].name)[1]
          /\ StackPatched(workspaces[i].name)
          /\ StackPatched(workspaces[j].name)
          /\ Injections(main_ts[NameSplit(workspaces[i].name)[1]]) = 1

\* C13: state transfer fidelity.  Every state-version on the target carries
\* the serial of a source state-version of its workspace, the lineage of
\* that state-version's downloaded payload, a payload whose base64 decoding
\* is the downloaded bytes, and the checksum of exactly those decoded bytes.
C13_StateTransferFidelity ==
    \A i \in DOMAIN scalr_states :
        LET sent == scalr_states[i]
            src  == SourceStates[scalr_workspaces[sent.workspace].name]
        IN  \E decoded \in {a2b_base64(sent.state)} :
              \E k \in DOMAIN src :
                  /\ sent.serial = src[k].serial
                  /\ sent.lineage = src[k].lineage
                  /\ decoded = src[k].content
                  /\ sent.md5 = Md5Hex(decoded)
                  /\ sent.md5 = Md5Hex(src[k].content)

\* C13 witness: the target holds a state-version whose payload needed no
\* padding and one whose payload needed padding.
C13_Witness ==
    \E i, j \in DOMAIN scalr_states :
        /\ Len(a2b_base64(scalr_states[i].state)) % 3 = 0
        /\ Len(a2b_base64(scalr_states[j].state)) % 3 # 0

\* The name of the source workspace with that id.
TfcName(id) ==
    (CHOOSE w \in {tfc_workspaces[i] : i \in DOMAIN tfc_workspaces} : w.id = id).name

\* Target workspace i has one state-version per source state-version and one
\* variable per source variable, all written by the run that created it.
TargetComplete(i) ==
    LET name == scalr_workspaces[i].name
        r    == scalr_workspaces[i].created_in
    IN  /\ Len(StatesOf(i)) = Len(SourceStates[name])
        /\ Len(VarsOf(i)) = Len(SourceVars[name])
        /\ \A k \in DOMAIN scalr_states :
               scalr_states[k].workspace = i => scalr_states[k].created_in = r
        /\ \A k \in DOMAIN scalr_vars :
               scalr_vars[k].workspace = i => scalr_vars[k].created_in = r

\* C14: pipeline ordering.  While a workspace is in the pipeline, each step
\* stands after the completed previous ones (create, state, variables, lock,
\* patch) and nothing of a later step is there yet; and every lock action
\* the source backend accepted was issued by a run that had written the
\* target workspace, its state-version and all its variables.
C14_PipelineOrdering ==
    /\ pc \in {"create", "state", "vars", "lock", "cdktf"} =>
          LET tfw == workspaces[idx]
          IN  /\ pc = "create" => CreatedIn(run, tfw.name) = {}
              /\ pc # "create" =>
                    /\ workspace.id \in CreatedIn(run, tfw.name)
                    /\ pc = "state" => StatesOf(workspace.id) = <<>>
                    /\ pc \in {"state", "vars"} => VarsOf(workspace.id) = <<>>
                    /\ pc \in {"vars", "lock", "cdktf"} =>
                          Len(StatesOf(workspace.id)) =
                              Len(SourceStates[tfw.name])
                    /\ pc \in {"lock", "cdktf"} => TargetComplete(workspace.id)
              /\ pc # "cdktf" => ~SourceLocked(tfw.id)
              /\ pc = "cdktf" => (SourceLocked(tfw.id) <=> lock)
              /\ ~StackPatched(tfw.name)
    /\ \A q \in DOMAIN tfc_lock_requests :
          tfc_lock_requests[q].ok =>
              \E i \in CreatedIn(tfc_lock_requests[q].run,
                                 TfcName(tfc_lock_requests[q].id)) :
                  TargetComplete(i)

\* C14 witness: a workspace with a state-version and two variables stands
\* before the patch step, locked, with everything on the target.
C14_Witness ==
    /\ pc = "cdktf"
    /\ SourceLocked(workspaces[idx].id)
    /\ Len(StatesOf(workspace.id)) = 1
    /\ Len(VarsOf(workspace.id)) = 2

\* The listed workspace has a target workspace that an earlier run created
\* and then reported as failed.
FailedAfterCreate(tfw) ==
    \E i \in TargetWorkspaces(tfw.name) :
        /\ scalr_workspaces[i].created_in < run
        /\ Reported(scalr_workspaces[i].created_in, FailedMsg, tfw.name)

\* C15 as claimed: a later run that comes to its end has skipped, at the
\* idempotency gate (with its message), every listed workspace whose
\* pipeline failed in an earlier run after the target workspace was created.
C15_FailedSkippedAtGate ==
    (run >= 2 /\ pc = "done") =>
        \A j \in DOMAIN workspaces :
            FailedAfterCreate(workspaces[j]) =>
                Reported(run, ExistsMsg, workspaces[j].name)

\* A later run leaves a workspace that failed after its creation alone: it
\* never enters the pipeline, the loop passes it at the gate with the
\* "already exists" message when the source is unlocked and at the locked
\* filter without a message when the failed run had locked it, and target
\* and source hold for it what the failed run left.
NotRetried ==
    \A j \in DOMAIN workspaces :
        LET tfw == workspaces[j]
        IN  FailedAfterCreate(tfw) =>
              /\ idx = j => pc \in {"listing", "loop", "gate", "crashed"}
              /\ j \in Visited =>
                    IF tfw.locked
                    THEN \A l \in DOMAIN log :
                            ~(log[l].run = run /\ log[l].name = tfw.name)
                    ELSE Reported(run, ExistsMsg, tfw.name)
              /\ Cardinality(TargetWorkspaces(tfw.name)) = 1
              /\ \A i \in TargetWorkspaces(tfw.name) :
                    /\ \A k \in DOMAIN scalr_states :
                          scalr_states[k].workspace = i =>
                              scalr_states[k].created_in < run
                    /\ \A k \in DOMAIN scalr_vars :
                          scalr_vars[k].workspace = i =>
                              scalr_vars[k].created_in < run
              /\ \A q \in DOMAIN tfc_lock_requests :
                    tfc_lock_requests[q].id = tfw.id =>
                        tfc_lock_requests[q].run < run
              /\ SourceLocked(tfw.id) <=> tfw.locked

\* A step removes nothing: the target's records stay, a locked source
\* workspace stays locked, patched files stay patched.
NothingRolledBack ==
    /\ SubSeq(scalr_workspaces', 1, Len(scalr_workspaces)) = scalr_workspaces
    /\ SubSeq(scalr_states', 1, Len(scalr_states)) = scalr_states
    /\ SubSeq(scalr_vars', 1, Len(scalr_vars)) = scalr_vars
    /\ \A i \in DOMAIN tfc_workspaces :
          tfc_workspaces[i].locked => tfc_workspaces'[i].locked
    /\ \A s \in DOMAIN cdk_json :
          cdk_json[s].hostname = scalr_hostname => cdk_json'[s] = cdk_json[s]
    /\ \A p \in DOMAIN main_ts :
          Injections(main_ts'[p]) >= Injections(main_ts[p])

\* C15 (amended): no retry of missed sub-steps.  Every step leads to a state
\* in which no workspace that failed after its creation is retried, and
\* rolls nothing back.
C15_NoRetryNoRollback == [][NotRetried' /\ NothingRolledBack]_vars

\* C15 witness: the second run came to its end after reporting "already
\* exists" for a workspace whose first run failed after the creation, and
\* the target still lacks variables of that workspace.
C15_Witness ==
    /\ run = 2
    /\ pc = "done"
    /\ \E j \in DOMAIN workspaces :
          /\ FailedAfterCreate(workspaces[j])
          /\ Reported(run, ExistsMsg, workspaces[j].name)
          /\ \E i \in TargetWorkspaces(workspaces[j].name) :
                Len(VarsOf(i)) < Len(SourceVars[workspaces[j].name])

\* The source workspace with that id was locked before the first run.
InitiallyLocked(id) ==
    \E c \in DOMAIN Catalog : Catalog[c].id = id /\ Catalog[c].locked

\* C16: lock step.  A lock action is issued only with run-wide locking on
\* and for a workspace that was not locked (not locked from the start and
\* by no earlier accepted lock action); a workspace that has passed the lock
\* step, or was migrated without a failure, has had its lock action
\* accepted exactly when locking is on; and
\* for every lock action that failed, the workspace is reported as failed
\* in that run, its stack file is not patched, its source stays unlocked,
\* and its target workspace, state-version and variables are in place.
C16_LockStep ==
    /\ \A q \in DOMAIN tfc_lock_requests :
          LET req  == tfc_lock_requests[q]
              name == TfcName(req.id)
          IN  /\ lock
              /\ ~InitiallyLocked(req.id)
              /\ \A e \in 1..(q - 1) :
                    tfc_lock_requests[e].id = req.id => ~tfc_lock_requests[e].ok
              /\ ~req.ok =>
                    /\ Reported(req.run, FailedMsg, name)
                    /\ ~StackPatched(name)
                    /\ ~SourceLocked(req.id)
                    /\ \E i \in CreatedIn(req.run, name) : TargetComplete(i)
    /\ pc = "cdktf" =>
          (lock <=> \E q \in DOMAIN tfc_lock_requests :
                       tfc_lock_requests[q] =
                           [run |-> run, id |-> workspaces[idx].id, ok |-> TRUE])
    /\ \A j \in Visited :
          (CreatedIn(run, workspaces[j].name) # {}
                /\ ~Reported(run, FailedMsg, workspaces[j].name)) =>
              (lock <=> \E q \in DOMAIN tfc_lock_requests :
                           tfc_lock_requests[q] =
                               [run |-> run, id |-> workspaces[j].id, ok |-> TRUE])

\* C16 witness: a run came to its end after a lock action failed; the
\* workspace has its state-version and variables on the target.
C16_Witness ==
    /\ pc = "done"
    /\ \E q \in DOMAIN tfc_lock_requests :
          /\ ~tfc_lock_requests[q].ok
          /\ \E i \in CreatedIn(tfc_lock_requests[q].run,
                                TfcName(tfc_lock_requests[q].id)) :
                Len(StatesOf(i)) = 1 /\ Len(VarsOf(i)) >= 1

\* C16 witness for the run without locking: a workspace passed the lock
\* step and no lock action was issued.
C16_WitnessLockOff ==
    /\ ~lock
    /\ pc = "cdktf"
    /\ tfc_lock_requests = <<>>

\* Every page of the current run's listing was fetched.
ListingComplete ==
    next_page = 0 /\ Len(workspaces) = Len(tfc_workspaces)

\* The current run was ended by a failing listing request.
ListingFailed ==
    /\ pc = "crashed"
    /\ uncaught[Len(uncaught)] =
           [run |-> run, at |-> "list workspaces", name |-> <<>>]

\* The current run has processed no workspace and written nothing.
NothingDoneInRun ==
    /\ idx = 1
    /\ migrated_cdktf_mains = {}
    /\ \A l \in DOMAIN log : log[l].run # run
    /\ \A q \in DOMAIN tfc_lock_requests : tfc_lock_requests[q].run # run
    /\ \A i \in DOMAIN scalr_workspaces : scalr_workspaces[i].created_in # run
    /\ \A i \in DOMAIN scalr_states : scalr_states[i].created_in # run
    /\ \A i \in DOMAIN scalr_vars : scalr_vars[i].created_in # run

\* C17: listing precedes all writes.  A step taken before every listing
\* page was fetched changes neither the target backend nor the source
\* backend nor a local file and reports nothing; and a run that a failing
\* listing request ended has processed no workspace and written nothing.
C17_ListingPrecedesWrites ==
    [][/\ ~ListingComplete => UNCHANGED <<target, source, files, log>>
       /\ ListingFailed' => NothingDoneInRun']_vars

\* C17 witness: the second run was ended by the failing request for the
\* second listing page, after a first run that had written to the target.
C17_Witness ==
    /\ run = 2
    /\ ListingFailed
    /\ Len(workspaces) = 1
    /\ next_page = 2
    /\ scalr_workspaces # <<>>

\* The patch step of a workspace of that name raises: the name has not
\* three segments, the project has no directory, its main.ts has no marker,
\* or the stack has no generated cdk.tf.json.
PatchFails(name) ==
    LET segments == NameSplit(name)
    IN  \/ Len(segments) # 3
        \/ segments[1] \notin DOMAIN find_cdktf_paths
        \/ SynthIndex(InitialMainTs[segments[1]]) = 0
        \/ segments \notin DOMAIN InitialCdkJson

PatchFailing == {n \in Names : PatchFails(n)}

\* C18: empty state is a no-op.  A workspace whose source has no
\* state-version never gets one on the target; and when no request failed,
\* the run that created its target workspace raises nothing at the state
\* step: the pipeline goes on, all its variables are written (none of its
\* secrets is missing), its source is locked when locking is on and its
\* artifacts are patched unless the patch step itself fails.
C18_EmptyStateIsNoOp ==
    \A j \in DOMAIN workspaces :
        LET tfw == workspaces[j]
        IN  SourceStates[tfw.name] = <<>> =>
              /\ \A i \in TargetWorkspaces(tfw.name) : StatesOf(i) = <<>>
              /\ (faults = 0 /\ CreatedIn(run, tfw.name) # {}
                             /\ MissingSecrets[tfw.name] = {}) =>
                    IF idx = j
                    THEN pc \in {"state", "vars", "lock", "cdktf"}
                    ELSE /\ j \in Visited
                         /\ \A i \in CreatedIn(run, tfw.name) : TargetComplete(i)
                         /\ lock => SourceLocked(tfw.id)
                         /\ IF tfw.name \in PatchFailing
                            THEN Reported(run, FailedMsg, tfw.name)
                            ELSE /\ StackPatched(tfw.name)
                                 /\ ~Reported(run, FailedMsg, tfw.name)

\* C18 witness: a workspace without a state-version was migrated to the
\* end: its variable is on the target, its source is locked, its stack file
\* is patched, and the target holds no state-version for it.
C18_Witness ==
    \E j \in Visited :
        /\ SourceStates[workspaces[j].name] = <<>>
        /\ SourceLocked(workspaces[j].id)
        /\ StackPatched(workspaces[j].name)
        /\ \E i \in CreatedIn(run, workspaces[j].name) :
              StatesOf(i) = <<>> /\ Len(VarsOf(i)) >= 1

\* The current run has written no message about that workspace.
Silent(name) ==
    \A l \in DOMAIN log : ~(log[l].run = run /\ log[l].name = name)

\* C19: patch failure after lock.  With locking on, for a listed workspace
\* whose patch step fails: once its lock action of this run was accepted the
\* pipeline stands at the patch step or the workspace is reported as failed,
\* with its source locked, its target workspace, state-version and variables
\* written and its stack file unpatched; when no request failed and no
\* secret is missing, a run that created its target workspace ends exactly
\* so; and a later run that lists it as locked passes it without a message
\* and without an existence query.
C19_PatchFailureAfterLock ==
    \A j \in DOMAIN workspaces :
        LET tfw      == workspaces[j]
            accepted == [run |-> run, id |-> tfw.id, ok |-> TRUE]
            ends     == /\ Reported(run, FailedMsg, tfw.name)
                        /\ SourceLocked(tfw.id)
                        /\ \E i \in CreatedIn(run, tfw.name) : TargetComplete(i)
                        /\ ~StackPatched(tfw.name)
        IN  (lock /\ tfw.name \in PatchFailing) =>
              /\ (\E q \in DOMAIN tfc_lock_requests :
                     tfc_lock_requests[q] = accepted) =>
                    IF idx = j THEN pc = "cdktf" ELSE j \in Visited /\ ends
              /\ (j \in Visited /\ CreatedIn(run, tfw.name) # {} /\ faults = 0
                    /\ MissingSecrets[tfw.name] = {}) => ends
              /\ (j \in Visited /\ tfw.locked /\ CreatedEarlier(tfw.name)) =>
                    /\ Silent(tfw.name)
                    /\ gate_query.name # tfw.name
                    /\ \E i \in TargetWorkspaces(tfw.name) : TargetComplete(i)

\* C19 witness: the second run came to its end without a word about a
\* workspace that the first run had written, locked and then reported as
\* failed at the patch step.
C19_Witness ==
    /\ run = 2
    /\ pc = "done"
    /\ \E j \in Visited :
          /\ workspaces[j].name \in PatchFailing
          /\ workspaces[j].locked
          /\ Reported(1, FailedMsg, workspaces[j].name)
          /\ Silent(workspaces[j].name)
          /\ \E i \in CreatedIn(1, workspaces[j].name) :
                Len(StatesOf(i)) = 1

NoResourcesMsg == "Skipping workspace with no resources"

\* The outcomes the current run shows for the listed workspace j.
Outcomes(j) ==
    LET tfw == workspaces[j]
    IN  {o \in {"filtered-out", "already-exists", "migrated", "failed"} :
            CASE o = "filtered-out" ->
                     \/ Reported(run, VersionMsg, tfw.name)
                     \/ Reported(run, NoResourcesMsg, tfw.name)
                     \/ tfw.locked /\ Silent(tfw.name)
              [] o = "already-exists" -> Reported(run, ExistsMsg, tfw.name)
              [] o = "failed" -> Reported(run, FailedMsg, tfw.name)
              [] o = "migrated" ->
                     /\ ~tfw.locked
                     /\ Silent(tfw.name)
                     /\ CreatedIn(run, tfw.name) # {}
                     /\ FullyMigrated(tfw)}

\* Every workspace the loop is done with has exactly one outcome and at
\* most one message; a filtered-out one was never asked for on the target
\* and got nothing there; and a run that returned has been through the
\* whole listing.
OneOutcomeEach ==
    /\ \A j \in Visited :
          /\ Cardinality(Outcomes(j)) = 1
          /\ \A l, m \in DOMAIN log :
                (log[l].run = run /\ log[l].name = workspaces[j].name
                   /\ log[m].run = run /\ log[m].name = workspaces[j].name) =>
                    l = m
          /\ ~Eligible(workspaces[j]) =>
                /\ Outcomes(j) = {"filtered-out"}
                /\ gate_query.name # workspaces[j].name
                /\ CreatedIn(run, workspaces[j].name) = {}
    /\ pc = "done" =>
          /\ ListingComplete
          /\ Visited = DOMAIN workspaces

\* The loop goes through the listing one workspace at a time.
OneAtATime ==
    idx' # idx => (idx' = idx + 1 /\ idx <= Len(workspaces)) \/ run' = run + 1

\* C20: termination with one outcome per workspace.  With the listing
\* served in finitely many pages, every run that is started comes to its
\* end, by returning or by an exception that escaped the per-workspace
\* handler; the loop visits the listed workspaces one after the other, each
\* visited one ends in exactly one of filtered-out, already-exists,
\* migrated, failed, a run that returned has visited all of them, and a
\* filtered-out workspace causes no request to the target backend.
C20_TerminationOneOutcome ==
    /\ (pc = "start") ~> (pc \in {"done", "crashed"})
    /\ []OneOutcomeEach
    /\ [][OneAtATime]_vars

\* C20 witness: a run returned after two workspaces, one filtered out and
\* one migrated.
C20_Witness ==
    /\ pc = "done"
    /\ Len(workspaces) = 2
    /\ \E i, j \in Visited :
          Outcomes(i) = {"filtered-out"} /\ Outcomes(j) = {"migrated"}
====
